---- MODULE Spec2Model ----
(***************************************************************************)
(* A model of the MCP connector platform's decision pipeline:              *)
(*   - the AI reviewer gateway (backend/src/utils/aiReviewer.ts and its    *)
(*     Gemini variant), its response parsing and final-decision function;  *)
(*   - the governance engine's fixed-window rate limiter                   *)
(*     (backend/src/utils/governanceEngine.ts);                            *)
(*   - the governance engine's policy checks (domain lock, endpoint        *)
(*     allowlist, schema validation, numeric ceilings) and checkGovernance;*)
(*   - the approvals router (list / approve / reject handlers);            *)
(*   - the MCP runtime's tool-call handler (mcp-runtime/src/index.ts);     *)
(*   - tool generation from OpenAPI endpoints (openApiParser.ts);          *)
(*   - the governance panel and the PATCH governance handler (logs.ts);    *)
(*   - redaction of sensitive fields (governanceEngine.ts).                *)
(* Each component has its own specification over the shared variables; a   *)
(* component's actions leave the other components' variables unchanged.    *)
(***************************************************************************)
EXTENDS Integers, Sequences, FiniteSets, TLC

VARIABLES
    \* ---- AI reviewer: one review() call ----
    rvImpl,        \* which source file's review(): "openai" or "gemini"
    rvPc,          \* "idle" | "awaiting" | "returned" | "raised"
    rvTimer,       \* "unset" | "armed" | "fired" | "cleared"
    rvContent,     \* the reviewer's reply the call received, if any
    rvResult,      \* the verdict returned, or the error raised
    rvFallback,    \* governanceConfigs.aiReviewerFallback of the connector
    rvElapsed,     \* the configured timeout elapsed while the call was suspended
    \* ---- determineFinalDecision applied to a verdict ----
    fdInput,       \* the (verdict, thresholds) last resolved, or NoInput
    fdOutput,      \* what determineFinalDecision returned for it
    \* ---- governance engine: rate limiter ----
    rateLimitMap,  \* GovernanceEngine.rateLimitMap: key -> RateLimitState
    now,           \* Date.now()
    limit,         \* config.rateLimitPerMinute of the connector
    waiting,       \* requests accepted by the event loop, not yet checked
    rlLog,         \* one entry per rate-limit check, in the order they ran
    \* ---- governance engine: checkGovernance ----
    gvInput,       \* the (tool, arguments, config, baseUrl, key) of the request
    gvResult,      \* what the last checkGovernance call returned
    gvCalls,       \* how many times checkGovernance ran
    \* ---- checkNumericCeilings applied to an argument map ----
    cgInput,       \* the (arguments, ceilings) checked, or NoCeilingInput
    cgOutput,      \* what checkNumericCeilings returned for it
    \* ---- approvals router ----
    approvals,     \* rows of the approvals table: id -> row
    apResponses,   \* the HTTP responses of approve / reject, in order
    apNow,         \* Date.now() at the approvals router
    apListings,    \* the approvals GET /api/approvals answered with, in order
    \* ---- MCP runtime ----
    connectors,    \* the runtime's in-memory connector store
    inFlight,      \* invocations suspended in `await callUpstreamAPI`
    upstreamCalls, \* invocations handed to callUpstreamAPI, in order
    rtResponses,   \* the HTTP responses of /mcp/tools/call, in order
    \* ---- governance configuration: admin panel and PATCH route ----
    pnGovernance,  \* GovernancePanel's `governance` state (the risk thresholds)
    pnSaved,       \* GovernancePanel's `saved` state: the success banner shows
    pnSaving,      \* handleSave calls suspended in their 500 ms wait
    pnTimers,      \* armed timers that clear the banner after 3000 ms
    ptLast,        \* the last PATCH /:id/governance request and its response
    ptCount,       \* how many PATCH requests were answered
    \* ---- redactSensitiveFields applied to a payload ----
    rdInput,       \* the payload, or NoPayload
    rdOutput       \* what redactSensitiveFields returned for it

rvVars == <<rvImpl, rvPc, rvTimer, rvContent, rvResult, rvFallback, rvElapsed>>
fdVars == <<fdInput, fdOutput>>
rlVars == <<rateLimitMap, now, limit, waiting, rlLog>>
gvVars == <<gvInput, gvResult, gvCalls>>
cgVars == <<cgInput, cgOutput>>
apVars == <<approvals, apResponses, apNow, apListings>>
rtVars == <<connectors, inFlight, upstreamCalls, rtResponses>>
cfVars == <<pnGovernance, pnSaved, pnSaving, pnTimers, ptLast, ptCount>>
rdVars == <<rdInput, rdOutput>>
vars == <<rvVars, fdVars, rlVars, gvVars, cgVars, apVars, rtVars, cfVars, rdVars>>

\* What an action of one component leaves alone: the other components.
rvFrame == <<fdVars, rlVars, gvVars, cgVars, apVars, rtVars, cfVars, rdVars>>
fdFrame == <<rvVars, rlVars, gvVars, cgVars, apVars, rtVars, cfVars, rdVars>>
rlFrame == <<rvVars, fdVars, gvVars, cgVars, apVars, rtVars, cfVars, rdVars>>
gvFrame == <<rvVars, fdVars, cgVars, apVars, rtVars, cfVars, rdVars>>
cgFrame == <<rvVars, fdVars, rlVars, gvVars, apVars, rtVars, cfVars, rdVars>>
apFrame == <<rvVars, fdVars, rlVars, gvVars, cgVars, rtVars, cfVars, rdVars>>
rtFrame == <<rvVars, fdVars, rlVars, gvVars, cgVars, apVars, cfVars, rdVars>>
cfFrame == <<rvVars, fdVars, rlVars, gvVars, cgVars, apVars, rtVars, rdVars>>
rdFrame == <<rvVars, fdVars, rlVars, gvVars, cgVars, apVars, rtVars, cfVars>>

(***************************************************************************)
(* JavaScript numbers: an integer or NaN.                                  *)
(***************************************************************************)
Num(n) == [nan |-> FALSE, v |-> n]
NaN == [nan |-> TRUE, v |-> 0]
JsGt(x, n) == ~x.nan /\ x.v > n
JsGe(x, n) == ~x.nan /\ x.v >= n
JsLe(x, n) == ~x.nan /\ x.v <= n

Decisions == {"ALLOW", "REQUIRE_HUMAN_APPROVAL", "BLOCK"}

(***************************************************************************)
(* AIReviewer.determineFinalDecision: the reviewer's verdict and the three *)
(* risk thresholds to the final decision.                                  *)
(***************************************************************************)
determineFinalDecisionAllowInclusive(reviewerOutput, allowMaxRisk, approvalMinRisk, blockMinRisk) ==
    LET score == reviewerOutput.riskScore IN
    IF reviewerOutput.decision = "BLOCK" THEN "BLOCK"
    ELSE IF reviewerOutput.decision = "ALLOW" /\ JsGe(score, allowMaxRisk)
        THEN "REQUIRE_HUMAN_APPROVAL"
    ELSE IF JsGe(score, blockMinRisk) THEN "BLOCK"
    ELSE IF JsGe(score, approvalMinRisk) THEN "REQUIRE_HUMAN_APPROVAL"
    ELSE IF JsLe(score, allowMaxRisk) THEN "ALLOW"
    ELSE reviewerOutput.decision

determineFinalDecision(reviewerOutput, allowMaxRisk, approvalMinRisk, blockMinRisk) ==
    LET score == reviewerOutput.riskScore IN
    IF reviewerOutput.decision = "BLOCK" THEN "BLOCK"
    ELSE IF reviewerOutput.decision = "ALLOW" /\ JsGt(score, allowMaxRisk)
        THEN "REQUIRE_HUMAN_APPROVAL"
    ELSE IF JsGe(score, blockMinRisk) THEN "BLOCK"
    ELSE IF JsGe(score, approvalMinRisk) THEN "REQUIRE_HUMAN_APPROVAL"
    ELSE IF JsLe(score, allowMaxRisk) THEN "ALLOW"
    ELSE reviewerOutput.decision

(***************************************************************************)
(* The reviewer's reply, as parseReviewerResponse sees it.                 *)
(*   kind "noJson":  the text holds no {...}                               *)
(*   kind "badJson": the {...} it holds is not JSON                        *)
(*   kind "empty":   no text at all (review() then parses '{}')             *)
(*   kind "json":    an object, with the three fields below                *)
(* decision: a string, or Absent (no such key, null or "").                *)
(* riskScore: [k, v] with k "absent" (no key, null), "number", "numstr"    *)
(* (a string holding the number v) or "text" (any other string).           *)
(* reasons: "array" or "other".                                            *)
(***************************************************************************)
Absent == "<absent>"
DecisionFields == Decisions \cup {"MAYBE", Absent}
ScoreNumbers == {0 - 20, 0, 10, 30, 31, 50, 75, 100, 150}
ScoreFields ==
    {[k |-> "absent", v |-> 0], [k |-> "text", v |-> 0], [k |-> "numstr", v |-> 80]}
        \cup {[k |-> "number", v |-> n] : n \in ScoreNumbers}
ReasonsFields == {"array", "other"}
Contents ==
    {[kind |-> k, decision |-> Absent, riskScore |-> [k |-> "absent", v |-> 0],
      reasons |-> "other"] : k \in {"noJson", "badJson", "empty"}}
        \cup {[kind |-> "json", decision |-> d, riskScore |-> s, reasons |-> r] :
                d \in DecisionFields, s \in ScoreFields, r \in ReasonsFields}

Max(a, b) == IF a >= b THEN a ELSE b
Min(a, b) == IF a <= b THEN a ELSE b

\* parsed.riskScore || 50, then Math.min(100, Math.max(0, .))
normalizeRiskScore(field) ==
    IF field.k = "absent" \/ (field.k = "number" /\ field.v = 0) THEN Num(50)
    ELSE IF field.k = "text" THEN NaN
    ELSE Num(Min(100, Max(0, field.v)))

Verdict(d, s, r) == [kind |-> "verdict", decision |-> d, riskScore |-> s, reasons |-> r]
Raised(msg) == [kind |-> "error", decision |-> msg, riskScore |-> NaN, reasons |-> msg]
NoResult == [kind |-> "none", decision |-> "", riskScore |-> NaN, reasons |-> ""]
NoContent == [kind |-> "none", decision |-> Absent,
              riskScore |-> [k |-> "absent", v |-> 0], reasons |-> "other"]

parseReviewerResponse(content) ==
    IF content.kind \in {"noJson", "badJson"}
        THEN Verdict("REQUIRE_HUMAN_APPROVAL", Num(75),
                     "Reviewer response parsing error - defaulting to safe mode")
    ELSE LET decision == IF content.decision = Absent
                             THEN "REQUIRE_HUMAN_APPROVAL" ELSE content.decision
             riskScore == normalizeRiskScore(content.riskScore)
             reasons == IF content.reasons = "array" THEN "given"
                        ELSE "Unable to determine"
         IN  IF decision \notin Decisions
                 THEN Verdict("REQUIRE_HUMAN_APPROVAL", Num(50),
                              "Invalid decision from reviewer")
             ELSE Verdict(decision, riskScore, reasons)

(***************************************************************************)
(* AIReviewer.review(input, timeoutMs): one call, from the call to its     *)
(* return or throw.  The external reviewer answers, fails, or stays        *)
(* silent; the timer set at the call fires timeoutMs later.                *)
(***************************************************************************)
Impls == {"openai", "gemini"}

RvInit ==
    /\ rvImpl \in Impls
    /\ rvFallback \in Decisions
    /\ rvPc = "idle"
    /\ rvTimer = "unset"
    /\ rvContent = NoContent
    /\ rvResult = NoResult
    /\ rvElapsed = FALSE

\* response.choices[0]?.message?.content || '{}'  /  response.response.text() || '{}'
contentOrEmptyObject(content) ==
    IF content.kind = "empty"
        THEN [kind |-> "json", decision |-> Absent,
              riskScore |-> [k |-> "absent", v |-> 0], reasons |-> "other"]
    ELSE content

\* The call: the prompts are built, the timer is set, the request is sent and
\* the call suspends on the reviewer's answer.
ReviewCall ==
    /\ rvPc = "idle"
    /\ rvPc' = "awaiting"
    /\ rvTimer' = "armed"
    /\ UNCHANGED <<rvImpl, rvContent, rvResult, rvFallback, rvElapsed>>
    /\ UNCHANGED rvFrame

\* The reviewer answers while the call is suspended on it.
\* openai: clearTimeout, then parse.  gemini: the race resolves, then parse
\* (the timer is left running).
ReviewerResponds(content) ==
    /\ rvPc = "awaiting"
    /\ rvPc' = "returned"
    /\ rvContent' = content
    /\ rvResult' = parseReviewerResponse(contentOrEmptyObject(content))
    /\ rvTimer' = IF rvImpl = "openai" /\ rvTimer = "armed" THEN "cleared" ELSE rvTimer
    /\ UNCHANGED <<rvImpl, rvFallback, rvElapsed>>
    /\ UNCHANGED rvFrame

\* The request to the reviewer fails (transport or API error): rethrown.
ReviewerFails ==
    /\ rvPc = "awaiting"
    /\ rvPc' = "raised"
    /\ rvResult' = Raised("reviewer request failed")
    /\ rvTimer' = IF rvImpl = "openai" /\ rvTimer = "armed" THEN "cleared" ELSE rvTimer
    /\ UNCHANGED <<rvImpl, rvContent, rvFallback, rvElapsed>>
    /\ UNCHANGED rvFrame

\* What the timer's callback does to a suspended call.
\* openai: controller.abort(); the controller's signal was never handed to
\* the request, so the call stays suspended on the reviewer.
\* gemini: the timeout promise rejects and wins the race: the call throws.
timerCallback(impl, pc) ==
    IF impl = "gemini" /\ pc = "awaiting" THEN "raised" ELSE pc

TimerFires ==
    /\ rvTimer = "armed"
    /\ rvTimer' = "fired"
    /\ rvElapsed' = (rvPc = "awaiting")
    /\ rvPc' = timerCallback(rvImpl, rvPc)
    /\ rvResult' = IF rvPc' = "raised" /\ rvPc = "awaiting"
                       THEN Raised("AI Reviewer timeout") ELSE rvResult
    /\ UNCHANGED <<rvImpl, rvContent, rvFallback>>
    /\ UNCHANGED rvFrame

RvNext ==
    \/ ReviewCall
    \/ \E content \in Contents : ReviewerResponds(content)
    \/ ReviewerFails
    \/ TimerFires

(***************************************************************************)
(* determineFinalDecision as a pure function: the inputs are drawn in the  *)
(* initial state and one action applies it.                                *)
(***************************************************************************)
MaxRiskScore == 100
ThresholdValues == {0, 30, 31, 71, 100}
NoInput == [decision |-> "", riskScore |-> NaN,
            allowMaxRisk |-> 0, approvalMinRisk |-> 0, blockMinRisk |-> 0]
FdInputs ==
    [decision : Decisions, riskScore : {Num(s) : s \in 0..MaxRiskScore},
     allowMaxRisk : ThresholdValues, approvalMinRisk : ThresholdValues,
     blockMinRisk : ThresholdValues]

FdIdle == fdInput = NoInput /\ fdOutput = "none"
FdInit == fdInput \in FdInputs /\ fdOutput = "none"

ResolveFinalDecision ==
    /\ fdInput # NoInput
    /\ fdOutput = "none"
    /\ fdOutput' = determineFinalDecision(
                       [decision |-> fdInput.decision, riskScore |-> fdInput.riskScore],
                       fdInput.allowMaxRisk, fdInput.approvalMinRisk,
                       fdInput.blockMinRisk)
    /\ UNCHANGED fdInput
    /\ UNCHANGED fdFrame

(***************************************************************************)
(* GovernanceEngine.checkRateLimit: a fixed window of WindowMs per key.    *)
(* A state read from the map is the map's own object: resetting it writes  *)
(* through even when the check then rejects; a state made up for a key     *)
(* with no entry reaches the map only by the set() of a passing check.     *)
(***************************************************************************)
WindowMs == 60000
Keys == {"k1", "k2"}

TicksPerWindow == 2
MaxTicks == 3
MaxChecks == 4
MaxLimit == 2
MaxWaiting == 2

TickMs == WindowMs \div TicksPerWindow

rateLimitState(map, key, at) ==
    IF key \in DOMAIN map THEN map[key]
    ELSE [requestCount |-> 0, resetTime |-> at + WindowMs]

windowPassedInclusive(at, state) == at >= state.resetTime
windowPassed(at, state) == at > state.resetTime

Put(map, key, state) ==
    [k \in DOMAIN map \cup {key} |-> IF k = key THEN state ELSE map[k]]

checkRateLimitNoIncrement(map, key, limitPerMinute, at) ==
    LET read == rateLimitState(map, key, at)
        state == IF windowPassed(at, read)
                     THEN [requestCount |-> 0, resetTime |-> at + WindowMs]
                 ELSE read
    IN  IF state.requestCount >= limitPerMinute
            THEN [allowed |-> FALSE,
                  map |-> IF key \in DOMAIN map THEN Put(map, key, state) ELSE map]
        ELSE [allowed |-> TRUE, map |-> Put(map, key, state)]

checkRateLimitCountsRejected(map, key, limitPerMinute, at) ==
    LET read == rateLimitState(map, key, at)
        state == IF windowPassed(at, read)
                     THEN [requestCount |-> 0, resetTime |-> at + WindowMs]
                 ELSE read
        counted == [state EXCEPT !.requestCount = state.requestCount + 1]
    IN  [allowed |-> state.requestCount < limitPerMinute, map |-> Put(map, key, counted)]

checkRateLimit(map, key, limitPerMinute, at) ==
    LET read == rateLimitState(map, key, at)
        state == IF windowPassed(at, read)
                     THEN [requestCount |-> 0, resetTime |-> at + WindowMs]
                 ELSE read
    IN  IF state.requestCount >= limitPerMinute
            THEN [allowed |-> FALSE,
                  map |-> IF key \in DOMAIN map THEN Put(map, key, state) ELSE map]
        ELSE [allowed |-> TRUE,
              map |-> Put(map, key,
                          [state EXCEPT !.requestCount = state.requestCount + 1])]

EmptyMap == [k \in {} |-> 0]

RlIdle ==
    /\ rateLimitMap = EmptyMap
    /\ now = 0
    /\ limit = 1
    /\ waiting = [k \in Keys |-> 0]
    /\ rlLog = <<>>

RlInit ==
    /\ rateLimitMap = EmptyMap
    /\ now = 0
    /\ limit \in 1..MaxLimit
    /\ waiting = [k \in Keys |-> 0]
    /\ rlLog = <<>>

Sum(f) == f["k1"] + f["k2"]

\* Time passes.
Tick ==
    /\ now < MaxTicks * TickMs
    /\ now' = now + TickMs
    /\ UNCHANGED <<rateLimitMap, limit, waiting, rlLog>>
    /\ UNCHANGED rlFrame

\* A request with rate-limit key `key` arrives; its handler has not run yet.
Arrive(key) ==
    /\ waiting[key] < MaxWaiting
    /\ Len(rlLog) + Sum(waiting) < MaxChecks
    /\ waiting' = [waiting EXCEPT ![key] = @ + 1]
    /\ UNCHANGED <<rateLimitMap, now, limit, rlLog>>
    /\ UNCHANGED rlFrame

\* The event loop runs the handler of one waiting request; the handler's call
\* checkRateLimit(rateLimitKey, config.rateLimitPerMinute) is synchronous and
\* runs to completion before any other handler.
CheckRateLimit(key) ==
    /\ waiting[key] > 0
    /\ LET r == checkRateLimit(rateLimitMap, key, limit, now) IN
        /\ rateLimitMap' = r.map
        /\ rlLog' = Append(rlLog,
                [key |-> key, at |-> now, allowed |-> r.allowed,
                 burst |-> waiting[key],
                 count |-> IF key \in DOMAIN r.map
                               THEN r.map[key].requestCount ELSE 0])
    /\ waiting' = [waiting EXCEPT ![key] = @ - 1]
    /\ UNCHANGED <<now, limit>>
    /\ UNCHANGED rlFrame

RlNext ==
    \/ Tick
    \/ \E key \in Keys : Arrive(key)
    \/ \E key \in Keys : CheckRateLimit(key)

(***************************************************************************)
(* GovernanceEngine: the deterministic checks.                             *)
(* A check answers [threw, allowed, reason]; a reason is [check, names]:   *)
(* which check failed and what its message names.                          *)
(***************************************************************************)
Passed(check) ==
    [threw |-> FALSE, allowed |-> TRUE, reason |-> [check |-> check, names |-> "passed"]]
Failed(check, names) ==
    [threw |-> FALSE, allowed |-> FALSE, reason |-> [check |-> check, names |-> names]]
Threw(check) ==
    [threw |-> TRUE, allowed |-> FALSE, reason |-> [check |-> check, names |-> "TypeError"]]

HasPrefix(s, p) == Len(s) >= Len(p) /\ SubSeq(s, 1, Len(p)) = p

\* new URL(baseUrl).hostname: the base URL strings tried, and what the URL
\* parser makes of each.  A hostname is the sequence of its labels and
\* separators; an IPv6 host is serialised inside its brackets.
BaseUrls ==
    {"https://api.t-dx.com/api/rest/v1", "http://192.168.1.5/api", "http://10.0.0.8",
     "http://172.16.0.1:8080", "http://LOCALHOST:3000", "http://127.0.0.1/api",
     "http://[::1]:8080/api", "http://[fd12:3456::1]/", "api.t-dx.com"}

parseUrl(baseUrl) ==
    CASE baseUrl = "https://api.t-dx.com/api/rest/v1"
            -> [ok |-> TRUE, hostname |-> <<"api", ".", "t-dx", ".", "com">>]
      [] baseUrl = "http://192.168.1.5/api"
            -> [ok |-> TRUE, hostname |-> <<"192", ".", "168", ".", "1", ".", "5">>]
      [] baseUrl = "http://10.0.0.8"
            -> [ok |-> TRUE, hostname |-> <<"10", ".", "0", ".", "0", ".", "8">>]
      [] baseUrl = "http://172.16.0.1:8080"
            -> [ok |-> TRUE, hostname |-> <<"172", ".", "16", ".", "0", ".", "1">>]
      [] baseUrl = "http://LOCALHOST:3000"
            -> [ok |-> TRUE, hostname |-> <<"localhost">>]
      [] baseUrl = "http://127.0.0.1/api"
            -> [ok |-> TRUE, hostname |-> <<"127", ".", "0", ".", "0", ".", "1">>]
      [] baseUrl = "http://[::1]:8080/api"
            -> [ok |-> TRUE, hostname |-> <<"[", ":", ":", "1", "]">>]
      [] baseUrl = "http://[fd12:3456::1]/"
            -> [ok |-> TRUE, hostname |-> <<"[", "fd12", ":", "3456", ":", ":", "1", "]">>]
      [] OTHER -> [ok |-> FALSE, hostname |-> <<>>]

\* 1[6-9] | 2\d | 3[01]
SecondOctets172 ==
    {"16", "17", "18", "19", "20", "21", "22", "23",
     "24", "25", "26", "27", "28", "29", "30", "31"}

isPrivateIP(hostname) ==
    \/ HasPrefix(hostname, <<"10", ".">>)
    \/ /\ Len(hostname) >= 4
       /\ hostname[1] = "172" /\ hostname[2] = "."
       /\ hostname[3] \in SecondOctets172 /\ hostname[4] = "."
    \/ HasPrefix(hostname, <<"192", ".", "168", ".">>)
    \/ HasPrefix(hostname, <<"fc00", ":">>)
    \/ HasPrefix(hostname, <<"fd00", ":">>)

checkDomainLock(baseUrl) ==
    LET url == parseUrl(baseUrl) IN
    IF ~url.ok THEN Failed("domain", "Invalid base URL format")
    ELSE IF isPrivateIP(url.hostname) THEN Failed("domain", "private IP")
    ELSE IF url.hostname \in {<<"localhost">>,
                              <<"127", ".", "0", ".", "0", ".", "1">>,
                              <<":", ":", "1">>}
        THEN Failed("domain", "localhost not allowed")
    ELSE Passed("domain")

(***************************************************************************)
(* matchPath: the pattern is rewritten into a regular expression, which is *)
(* tested against the whole path.  Paths and patterns are sequences of     *)
(* characters; the regular expression is a sequence of the pieces          *)
(* "\\." (a dot), "." (any character), ".*", "[^/]+" and literals.         *)
(***************************************************************************)
\* .replace(/\./g, '\\.')
replaceDots(pattern) ==
    [i \in 1..Len(pattern) |-> IF pattern[i] = "." THEN "\\." ELSE pattern[i]]

\* .replace(/\*/g, '.*')
replaceStars(pattern) ==
    [i \in 1..Len(pattern) |-> IF pattern[i] = "*" THEN ".*" ELSE pattern[i]]

\* The first index from j on holding "}", or 0.
RECURSIVE closingBrace(_, _)
closingBrace(pattern, j) ==
    IF j > Len(pattern) THEN 0
    ELSE IF pattern[j] = "}" THEN j
    ELSE closingBrace(pattern, j + 1)

\* .replace(/\{[^}]+\}/g, '[^/]+')
RECURSIVE replaceBraces(_)
replaceBraces(pattern) ==
    IF pattern = <<>> THEN <<>>
    ELSE LET close == IF Head(pattern) = "{" THEN closingBrace(pattern, 2) ELSE 0 IN
         IF close > 2
             THEN <<"[^/]+">> \o replaceBraces(SubSeq(pattern, close + 1, Len(pattern)))
         ELSE <<Head(pattern)>> \o replaceBraces(Tail(pattern))

regexPattern(pattern) == replaceBraces(replaceStars(replaceDots(pattern)))

\* new RegExp(`^${regexPattern}$`).test(path), from piece i and character j on
RECURSIVE regexTest(_, _, _, _)
regexTest(regex, i, path, j) ==
    IF i > Len(regex) THEN j > Len(path)
    ELSE CASE regex[i] = ".*" ->
                  \E k \in j..(Len(path) + 1) : regexTest(regex, i + 1, path, k)
           [] regex[i] = "[^/]+" ->
                  \E k \in (j + 1)..(Len(path) + 1) :
                      /\ \A m \in j..(k - 1) : path[m] # "/"
                      /\ regexTest(regex, i + 1, path, k)
           [] regex[i] = "." ->
                  j <= Len(path) /\ regexTest(regex, i + 1, path, j + 1)
           [] regex[i] = "\\." ->
                  j <= Len(path) /\ path[j] = "." /\ regexTest(regex, i + 1, path, j + 1)
           [] OTHER ->
                  j <= Len(path) /\ path[j] = regex[i]
                      /\ regexTest(regex, i + 1, path, j + 1)

matchPath(path, pattern) == regexTest(regexPattern(pattern), 1, path, 1)

checkEndpointAllowlistPathOnly(tool, config) ==
    IF config.allowedPaths # {}
            /\ ~\E pattern \in config.allowedPaths : matchPath(tool.path, pattern)
        THEN Failed("path", "not in allowlist")
    ELSE Passed("allowlist")

checkEndpointAllowlist(tool, config) ==
    IF tool.method \notin config.allowedVerbs
        THEN Failed("verb", tool.method)
    ELSE IF config.allowedPaths # {}
            /\ ~\E pattern \in config.allowedPaths : matchPath(tool.path, pattern)
        THEN Failed("path", "not in allowlist")
    ELSE Passed("allowlist")

(***************************************************************************)
(* Argument values.  An argument map is [type, null, fields]: its typeof,  *)
(* whether it is null, and its own fields; a field's value is [t, n]: its  *)
(* type as validateType sees it ("array", or its typeof) and, for a        *)
(* number, the number.                                                     *)
(***************************************************************************)
NoFields == [f \in {} |-> 0]
ObjectOf(fields) == [type |-> "object", null |-> FALSE, fields |-> fields]
NumberValue(n) == [t |-> "number", n |-> n]
StringValue == [t |-> "string", n |-> 0]

\* `field in arguments_` evaluates for an object and throws a TypeError for
\* null, undefined and primitives.
inEvaluates(arguments_) == arguments_.type = "object" /\ ~arguments_.null

\* Array.isArray(value) ? 'array' : typeof value, against the expected type
validateType(value, expectedType) == value.t = expectedType

\* The least member of a set of indices, or 0: where a loop returns first.
firstOf(indices) ==
    IF indices = {} THEN 0 ELSE CHOOSE i \in indices : \A j \in indices : i <= j

\* schema: [type, required, properties]; required is the sequence of the
\* required names (empty when the schema has none), properties the sequence
\* of [name, type] in the schema's order.
validateSchema(arguments_, schema) ==
    IF schema.type = "object" /\ arguments_.type # "object"
        THEN Failed("schema", "Arguments must be an object")
    ELSE IF (Len(schema.required) > 0 \/ Len(schema.properties) > 0)
            /\ ~inEvaluates(arguments_)
        THEN Failed("schema", "Schema validation error")
    ELSE LET Present(field) == field \in DOMAIN arguments_.fields
             TypeOk(prop) == ~Present(prop.name)
                                 \/ validateType(arguments_.fields[prop.name], prop.type)
             missing == firstOf({i \in 1..Len(schema.required) :
                                    ~Present(schema.required[i])})
             invalid == firstOf({i \in 1..Len(schema.properties) :
                                    ~TypeOk(schema.properties[i])})
         IN  IF missing # 0 THEN Failed("schema", schema.required[missing])
             ELSE IF invalid # 0 THEN Failed("schema", schema.properties[invalid].name)
             ELSE Passed("schema")

ceilingFields == <<"amount", "notional", "qty", "quantity", "size">>

exceedsInclusive(value, ceiling) == value.t = "number" /\ value.n >= ceiling
exceeds(value, ceiling) == value.t = "number" /\ value.n > ceiling

checkNumericCeilings(arguments_, ceilings) ==
    IF ~inEvaluates(arguments_) THEN Threw("ceiling")
    ELSE LET Over(field) ==
                 /\ field \in DOMAIN arguments_.fields
                 /\ field \in DOMAIN ceilings
                 /\ exceeds(arguments_.fields[field], ceilings[field])
             over == firstOf({i \in 1..Len(ceilingFields) : Over(ceilingFields[i])})
         IN  IF over # 0 THEN Failed("ceiling", ceilingFields[over])
             ELSE Passed("ceiling")

(***************************************************************************)
(* GovernanceEngine.checkGovernance: the enabled check returns at once;    *)
(* the five checks after it all run and their failures accumulate.  The    *)
(* call answers [threw, result, map]: the rate limiter's map as the call   *)
(* leaves it, also when a later check throws.                              *)
(***************************************************************************)
NoGovernanceResult ==
    [allowed |-> FALSE, reason |-> "none", requiresApproval |-> FALSE, violations |-> <<>>]

Push(violations, check) ==
    IF check.allowed THEN violations ELSE Append(violations, check.reason)

approvalNeeded(tool, config) ==
    \/ config.requireApprovalForWrites /\ tool.category = "WRITE"
    \/ config.requireApprovalForHighRisk /\ tool.category = "DANGEROUS"

governanceResultApprovalKept(violations, requiresApproval) ==
    [allowed |-> violations = <<>>,
     reason |-> IF violations = <<>> THEN "All checks passed" ELSE "Governance violations",
     requiresApproval |-> requiresApproval,
     violations |-> violations]

governanceResult(violations, requiresApproval) ==
    [allowed |-> violations = <<>>,
     reason |-> IF violations = <<>> THEN "All checks passed" ELSE "Governance violations",
     requiresApproval |-> IF violations = <<>> THEN requiresApproval ELSE FALSE,
     violations |-> violations]

checkGovernanceCountsDisabled(map, tool, arguments_, config, baseUrl, rateLimitKey, at) ==
    LET rateLimit == checkRateLimit(map, rateLimitKey, config.rateLimitPerMinute, at) IN
    IF ~config.enabled
        THEN [threw |-> FALSE, map |-> rateLimit.map,
              result |-> [allowed |-> FALSE, reason |-> "Connector is disabled",
                          requiresApproval |-> FALSE,
                          violations |-> <<[check |-> "enabled",
                                            names |-> "Connector disabled"]>>]]
    ELSE LET domainCheck == checkDomainLock(baseUrl)
             rateLimitCheck == IF rateLimit.allowed THEN Passed("rate")
                               ELSE Failed("rate", "Rate limit exceeded")
             allowlistCheck == checkEndpointAllowlist(tool, config)
             schemaCheck == validateSchema(arguments_, tool.inputSchema)
             ceilingCheck == checkNumericCeilings(arguments_, config.numericCeilings)
             violations == Push(Push(Push(Push(Push(<<>>, domainCheck), rateLimitCheck),
                                          allowlistCheck), schemaCheck), ceilingCheck)
         IN  IF ceilingCheck.threw
                 THEN [threw |-> TRUE, map |-> rateLimit.map, result |-> NoGovernanceResult]
             ELSE [threw |-> FALSE, map |-> rateLimit.map,
                   result |-> governanceResult(violations, approvalNeeded(tool, config))]

checkGovernanceFirstFailureOnly(map, tool, arguments_, config, baseUrl, rateLimitKey, at) ==
    IF ~config.enabled
        THEN [threw |-> FALSE, map |-> map,
              result |-> [allowed |-> FALSE, reason |-> "Connector is disabled",
                          requiresApproval |-> FALSE,
                          violations |-> <<[check |-> "enabled",
                                            names |-> "Connector disabled"]>>]]
    ELSE LET domainCheck == checkDomainLock(baseUrl)
             rateLimit == checkRateLimit(map, rateLimitKey, config.rateLimitPerMinute, at)
             rateLimitCheck == IF rateLimit.allowed THEN Passed("rate")
                               ELSE Failed("rate", "Rate limit exceeded")
             allowlistCheck == checkEndpointAllowlist(tool, config)
             schemaCheck == validateSchema(arguments_, tool.inputSchema)
             ceilingCheck == checkNumericCeilings(arguments_, config.numericCeilings)
             all == Push(Push(Push(Push(Push(<<>>, domainCheck), rateLimitCheck),
                                   allowlistCheck), schemaCheck), ceilingCheck)
             violations == IF all = <<>> THEN <<>> ELSE <<Head(all)>>
         IN  IF ceilingCheck.threw
                 THEN [threw |-> TRUE, map |-> rateLimit.map, result |-> NoGovernanceResult]
             ELSE [threw |-> FALSE, map |-> rateLimit.map,
                   result |-> governanceResult(violations, approvalNeeded(tool, config))]

checkGovernance(map, tool, arguments_, config, baseUrl, rateLimitKey, at) ==
    IF ~config.enabled
        THEN [threw |-> FALSE, map |-> map,
              result |-> [allowed |-> FALSE, reason |-> "Connector is disabled",
                          requiresApproval |-> FALSE,
                          violations |-> <<[check |-> "enabled",
                                            names |-> "Connector disabled"]>>]]
    ELSE LET domainCheck == checkDomainLock(baseUrl)
             rateLimit == checkRateLimit(map, rateLimitKey, config.rateLimitPerMinute, at)
             rateLimitCheck == IF rateLimit.allowed THEN Passed("rate")
                               ELSE Failed("rate", "Rate limit exceeded")
             allowlistCheck == checkEndpointAllowlist(tool, config)
             schemaCheck == validateSchema(arguments_, tool.inputSchema)
             ceilingCheck == checkNumericCeilings(arguments_, config.numericCeilings)
             violations == Push(Push(Push(Push(Push(<<>>, domainCheck), rateLimitCheck),
                                          allowlistCheck), schemaCheck), ceilingCheck)
         IN  IF ceilingCheck.threw
                 THEN [threw |-> TRUE, map |-> rateLimit.map, result |-> NoGovernanceResult]
             ELSE [threw |-> FALSE, map |-> rateLimit.map,
                   result |-> governanceResult(violations, approvalNeeded(tool, config))]

(***************************************************************************)
(* One request checked by checkGovernance, once or again as time passes.   *)
(***************************************************************************)
MaxGovernanceCalls == 2

NoSchema == [type |-> "object", required |-> <<>>, properties |-> <<>>]

Tools ==
    {[name |-> "get_balances", method |-> "GET", path |-> <<"/", "a">>,
      category |-> "READ",
      inputSchema |-> [type |-> "object", required |-> <<>>,
                       properties |-> <<[name |-> "limit", type |-> "number"]>>]],
     [name |-> "create_order", method |-> "POST", path |-> <<"/", "a", "/", "b">>,
      category |-> "WRITE",
      inputSchema |-> [type |-> "object", required |-> <<"amount">>,
                       properties |-> <<[name |-> "amount", type |-> "number"]>>]],
     [name |-> "delete_balance", method |-> "DELETE", path |-> <<"/", "a", ".", "b">>,
      category |-> "DANGEROUS", inputSchema |-> NoSchema],
     [name |-> "get_trades", method |-> "GET", path |-> <<"/", "a", "x", "b">>,
      category |-> "DANGEROUS", inputSchema |-> NoSchema]}

AllowedVerbChoices == {{"GET"}, {"GET", "POST"}}
AllowedPathChoices ==
    {{},
     {<<"/", "a">>},
     {<<"/", "a", "/", "*">>, <<"/", "a", ".", "b">>},
     {<<"/", "{", "i", "d", "}">>}}

GvArguments ==
    {ObjectOf(NoFields),
     ObjectOf([f \in {"amount"} |-> NumberValue(100000)]),
     ObjectOf([f \in {"amount"} |-> NumberValue(100001)]),
     ObjectOf([f \in {"limit", "amount"} |->
                  IF f = "limit" THEN StringValue ELSE NumberValue(100001)])}
GvCeilings == {NoFields, [f \in {"amount"} |-> 100000]}

GovernanceConfigs ==
    [allowedVerbs : AllowedVerbChoices, allowedPaths : AllowedPathChoices,
     rateLimitPerMinute : {1}, numericCeilings : GvCeilings,
     requireApprovalForWrites : BOOLEAN, requireApprovalForHighRisk : BOOLEAN,
     enabled : BOOLEAN]

GvInputs ==
    [tool : Tools, arguments : GvArguments, config : GovernanceConfigs,
     baseUrl : BaseUrls, rateLimitKey : {"k1"}]

NoGvInput == [tool |-> "none"]
NoGvCall == [threw |-> FALSE, map |-> EmptyMap, result |-> NoGovernanceResult]

GvIdle == gvInput = NoGvInput /\ gvResult = NoGvCall /\ gvCalls = 0
GvInit == gvInput \in GvInputs /\ gvResult = NoGvCall /\ gvCalls = 0

CheckGovernance ==
    /\ gvInput # NoGvInput
    /\ gvCalls < MaxGovernanceCalls
    /\ gvResult' = checkGovernance(rateLimitMap, gvInput.tool, gvInput.arguments,
                                    gvInput.config, gvInput.baseUrl,
                                    gvInput.rateLimitKey, now)
    /\ rateLimitMap' = gvResult'.map
    /\ gvCalls' = gvCalls + 1
    /\ UNCHANGED <<gvInput, now, limit, waiting, rlLog>>
    /\ UNCHANGED gvFrame

(***************************************************************************)
(* OpenAPIParser.generateMCPTool: the tool, and its input schema, that the *)
(* platform makes of an endpoint.  A parameter is [name, in, type,         *)
(* required]; type is the parameter's schema.type, or Absent.  The request *)
(* body is [present, required, type].                                      *)
(***************************************************************************)
SchemaTypes == {"string", "number", "integer", "boolean", "array", "object"}

\* typeMap[type] || 'string'
mapOpenAPIType(type) == IF type \in SchemaTypes THEN type ELSE "string"

\* param.schema?.type || 'string'  /  schema.type || 'object'
orDefault(type, default) == IF type = Absent THEN default ELSE type

buildInputSchema(endpoint) ==
    LET InPath(param) == param.in = "path"
        InQuery(param) == param.in = "query"
        Required(param) == param.required
        params == SelectSeq(endpoint.parameters, InPath)
                      \o SelectSeq(endpoint.parameters, InQuery)
        body == IF endpoint.requestBody.present
                    THEN <<[name |-> "body", required |-> endpoint.requestBody.required,
                            type |-> mapOpenAPIType(
                                         orDefault(endpoint.requestBody.type, "object"))]>>
                ELSE <<>>
        property(param) == [name |-> param.name,
                            type |-> mapOpenAPIType(orDefault(param.type, "string"))]
        required == SelectSeq(params, Required) \o SelectSeq(body, Required)
    IN  [type |-> "object",
         required |-> [i \in 1..Len(required) |-> required[i].name],
         properties |-> [i \in 1..Len(params) |-> property(params[i])]
                            \o [i \in 1..Len(body) |->
                                   [name |-> body[i].name, type |-> body[i].type]]]

generateMCPTool(endpoint) ==
    [name |-> endpoint.operationId, method |-> endpoint.method, path |-> endpoint.path,
     category |-> endpoint.category, inputSchema |-> buildInputSchema(endpoint)]

NoBody == [present |-> FALSE, required |-> FALSE, type |-> Absent]

ParameterTypes == SchemaTypes \cup {"file", Absent}

\* One endpoint per parameter type, its parameter required or not; one with
\* a query and a path parameter; one with a request body.
Endpoints ==
    {[operationId |-> "list_items", method |-> "GET", path |-> <<"/", "a">>,
      category |-> "READ", requestBody |-> NoBody,
      parameters |-> <<[name |-> "p", in |-> "query", type |-> type,
                        required |-> required]>>] :
        type \in ParameterTypes, required \in BOOLEAN}
    \cup
    {[operationId |-> "get_item", method |-> "GET", path |-> <<"/", "a">>,
      category |-> "READ", requestBody |-> NoBody,
      parameters |-> <<[name |-> "q", in |-> "query", type |-> "integer",
                        required |-> FALSE],
                       [name |-> "id", in |-> "path", type |-> "string",
                        required |-> TRUE]>>],
     [operationId |-> "create_item", method |-> "POST", path |-> <<"/", "a">>,
      category |-> "WRITE", parameters |-> <<>>,
      requestBody |-> [present |-> TRUE, required |-> TRUE, type |-> Absent]]}

\* Argument values of every shape: null, undefined, a string, and objects.
NullArguments == [type |-> "object", null |-> TRUE, fields |-> NoFields]
UndefinedArguments == [type |-> "undefined", null |-> FALSE, fields |-> NoFields]
StringArguments == [type |-> "string", null |-> FALSE, fields |-> NoFields]

FieldValues ==
    {StringValue, NumberValue(5)}
        \cup {[t |-> type, n |-> 0] : type \in {"boolean", "array", "object"}}

ShArguments ==
    {NullArguments, UndefinedArguments, StringArguments, ObjectOf(NoFields)}
        \cup {ObjectOf([f \in {"p"} |-> value]) : value \in FieldValues}
        \cup {ObjectOf([f \in {"id", "q"} |->
                           IF f = "id" THEN StringValue ELSE NumberValue(5)]),
              ObjectOf([f \in {"body"} |-> [t |-> "object", n |-> 0]])}

ShConfigs ==
    [allowedVerbs : {{"GET", "POST"}}, allowedPaths : {{}},
     rateLimitPerMinute : {1}, numericCeilings : {NoFields},
     requireApprovalForWrites : {TRUE}, requireApprovalForHighRisk : {TRUE},
     enabled : BOOLEAN]

ShInputs ==
    [tool : {generateMCPTool(endpoint) : endpoint \in Endpoints},
     arguments : ShArguments, config : ShConfigs,
     baseUrl : {"https://api.t-dx.com/api/rest/v1", "http://10.0.0.8"},
     rateLimitKey : {"k1"}]

ShInit == gvInput \in ShInputs /\ gvResult = NoGvCall /\ gvCalls = 0

\* The connector's kill switch (governance_configs.enabled) is thrown or
\* released between two requests.
KillSwitch ==
    /\ gvInput # NoGvInput
    /\ gvInput' = [gvInput EXCEPT !.config.enabled = ~@]
    /\ UNCHANGED <<gvResult, gvCalls>>
    /\ UNCHANGED rlVars
    /\ UNCHANGED gvFrame

(***************************************************************************)
(* checkNumericCeilings as a pure function: the argument map and the       *)
(* ceilings are drawn in the initial state and one action applies it.      *)
(***************************************************************************)
CeilingArgFields == {"amount", "size", "limit"}
CeilingArgValues ==
    {NumberValue(n) : n \in {100, 500, 100000, 100001}} \cup {StringValue}
CeilingValues == {100, 100000}

CgArguments ==
    {ObjectOf(NoFields)}
        \cup {ObjectOf([f \in {field} |-> value]) :
                 field \in CeilingArgFields, value \in CeilingArgValues}
        \cup {ObjectOf([f \in {"amount", "size"} |-> value]) : value \in CeilingArgValues}
CgCeilings ==
    {NoFields}
        \cup {[f \in {field} |-> c] : field \in CeilingArgFields, c \in CeilingValues}
        \cup {[f \in CeilingArgFields |-> c] : c \in CeilingValues}

NoCeilingInput == [arguments |-> ObjectOf(NoFields), ceilings |-> NoFields, drawn |-> FALSE]
NoCeilingOutput == [threw |-> FALSE, allowed |-> FALSE,
                    reason |-> [check |-> "none", names |-> "none"]]

CgIdle == cgInput = NoCeilingInput /\ cgOutput = NoCeilingOutput
CgInit ==
    /\ cgInput \in [arguments : CgArguments, ceilings : CgCeilings, drawn : {TRUE}]
    /\ cgOutput = NoCeilingOutput

CheckNumericCeilings ==
    /\ cgInput.drawn
    /\ cgOutput = NoCeilingOutput
    /\ cgOutput' = checkNumericCeilings(cgInput.arguments, cgInput.ceilings)
    /\ UNCHANGED cgInput
    /\ UNCHANGED cgFrame

(***************************************************************************)
(* The approvals router: GET /api/approvals, POST /api/approvals/:id/approve*)
(* and /:id/reject.  The list handler answers with one made-up pending     *)
(* approval; the decision handlers parse the body and answer.  None reads  *)
(* or writes the approvals table.                                          *)
(***************************************************************************)
ApprovalIds == {"approval-1", "a1", "a2"}
\* req.body.notes: no such key, a string, or something else
NotesKinds == {"absent", "string", "number"}
MaxDecisions == 3

NoRows == [id \in {} |-> 0]

\* expiresAt of a listed approval: Date.now() + 24 * 60 * 60 * 1000
ApprovalWindowMs == 86400000
ApTicksPerWindow == 2
MaxApTicks == 3
MaxListings == 2
ApTickMs == ApprovalWindowMs \div ApTicksPerWindow

ApInit ==
    /\ approvals = NoRows
    /\ apResponses = <<>>
    /\ apNow = 0
    /\ apListings = <<>>

\* Time passes.
ApTick ==
    /\ apNow < MaxApTicks * ApTickMs
    /\ apNow' = apNow + ApTickMs
    /\ UNCHANGED <<approvals, apResponses, apListings>>
    /\ UNCHANGED apFrame

\* GET /api/approvals: the pending approvals, as the handler answers them.
pendingApprovals(at) ==
    {[id |-> "approval-1", status |-> "pending", createdAt |-> at,
      expiresAt |-> at + ApprovalWindowMs]}

ListPending ==
    /\ Len(apListings) < MaxListings
    /\ apListings' = Append(apListings, [at |-> apNow, approvals |-> pendingApprovals(apNow)])
    /\ UNCHANGED <<approvals, apResponses, apNow>>
    /\ UNCHANGED apFrame

\* ApprovalDecisionSchema.parse: z.object({ notes: z.string().optional() })
approvalDecisionSchemaOk(notes) == notes \in {"absent", "string"}

approveResponse(id, notes) ==
    IF approvalDecisionSchemaOk(notes)
        THEN [route |-> "approve", id |-> id, code |-> 200, status |-> "approved"]
    ELSE [route |-> "approve", id |-> id, code |-> 400, status |-> "error"]

rejectResponse(id, notes) ==
    IF approvalDecisionSchemaOk(notes)
        THEN [route |-> "reject", id |-> id, code |-> 200, status |-> "rejected"]
    ELSE [route |-> "reject", id |-> id, code |-> 400, status |-> "error"]

Approve(id, notes) ==
    /\ Len(apResponses) < MaxDecisions
    /\ apResponses' = Append(apResponses, approveResponse(id, notes))
    /\ UNCHANGED <<approvals, apNow, apListings>>
    /\ UNCHANGED apFrame

Reject(id, notes) ==
    /\ Len(apResponses) < MaxDecisions
    /\ apResponses' = Append(apResponses, rejectResponse(id, notes))
    /\ UNCHANGED <<approvals, apNow, apListings>>
    /\ UNCHANGED apFrame

ApNext ==
    \/ ApTick
    \/ ListPending
    \/ \E id \in ApprovalIds, notes \in NotesKinds : Approve(id, notes)
    \/ \E id \in ApprovalIds, notes \in NotesKinds : Reject(id, notes)

(***************************************************************************)
(* The MCP runtime: POST /internal/connectors/register and                 *)
(* POST /mcp/tools/call.  The tool-call handler suspends once, on the      *)
(* upstream request.                                                       *)
(***************************************************************************)
ConnectorIds == {"c1"}
RequestedConnectorIds == {"c1", "c9"}
ToolNames == {"get_items", "post_orders", "delete_items"}
RequestedToolNames == ToolNames \cup {"drop_tables"}
Tokens == {"good", "bad", "none"}
MaxInvocations == 2

\* tool.name.split('_')[0].toUpperCase()
toolMethod(name) ==
    CASE name = "get_items" -> "GET"
      [] name = "post_orders" -> "POST"
      [] name = "delete_items" -> "DELETE"
      [] OTHER -> "DROP"

\* Argument values: typeof, null, and the keys of an object.
ArgumentValues ==
    {[type |-> "object", null |-> FALSE, keys |-> {"id"}],
     [type |-> "object", null |-> FALSE, keys |-> {}],
     [type |-> "object", null |-> TRUE, keys |-> {}],
     [type |-> "string", null |-> FALSE, keys |-> {}],
     [type |-> "undefined", null |-> FALSE, keys |-> {}]}

InputSchema == [type |-> "object", required |-> {"id"}]

\* The governance a connector is registered with: the runtime keeps the
\* object it is sent.
GovernanceChoices ==
    {[allowedVerbs |-> {"GET"}, rateLimitPerMinute |-> 60,
      requireApprovalForWrites |-> TRUE, requireApprovalForHighRisk |-> TRUE],
     [allowedVerbs |-> {"GET", "POST"}, rateLimitPerMinute |-> 60,
      requireApprovalForWrites |-> TRUE, requireApprovalForHighRisk |-> TRUE],
     [allowedVerbs |-> {"GET", "POST"}, rateLimitPerMinute |-> 60,
      requireApprovalForWrites |-> FALSE, requireApprovalForHighRisk |-> FALSE]}

ConnectorConfig(id, governance) ==
    [id |-> id, tools |-> ToolNames, governance |-> governance]

NoConnectors == [id \in {} |-> 0]

RtInit ==
    /\ connectors = NoConnectors
    /\ inFlight = {}
    /\ upstreamCalls = <<>>
    /\ rtResponses = <<>>

\* The runtime's own validateSchema(input, schema); `field in null` throws
\* and the catch answers invalid.
validateSchemaRuntime(input, schema) ==
    IF schema.type = "object" /\ input.type # "object" THEN FALSE
    ELSE IF schema.required # {} /\ input.null THEN FALSE
    ELSE schema.required \subseteq input.keys

\* process.env[`TOKEN_${connectorId}`] is "good" for every connector.
tokenOk(token) == token = "good"

\* GovernanceEngine.checkEndpointAllowlist, the verb:
\* config.allowedVerbs.includes(tool.method)
verbAllowed(method, allowedVerbs) == method \in allowedVerbs

\* OpenAPIParser.categorizeEndpoint, by the HTTP method: these are READ
\* unless a danger keyword applies; every other method is WRITE or DANGEROUS.
ReadMethods == {"GET", "HEAD", "OPTIONS"}

Register(id, governance) ==
    /\ connectors' = [c \in DOMAIN connectors \cup {id} |->
                         IF c = id THEN ConnectorConfig(id, governance)
                         ELSE connectors[c]]
    /\ UNCHANGED <<inFlight, upstreamCalls, rtResponses>>
    /\ UNCHANGED rtFrame

\* A response: its status code, and the upstream call whose result or error
\* it carries (0 when the handler returned before callUpstreamAPI).
Respond(code, toolName, call) ==
    rtResponses' = Append(rtResponses,
                          [code |-> code, toolName |-> toolName, call |-> call])

\* The handler up to its suspension on callUpstreamAPI, or to its early return.
ToolsCall(connectorId, toolName, token, arguments) ==
    /\ Len(rtResponses) + Cardinality(inFlight) < MaxInvocations
    /\ IF connectorId \notin DOMAIN connectors
           THEN Respond(404, toolName, 0) /\ UNCHANGED <<inFlight, upstreamCalls>>
       ELSE IF ~tokenOk(token)
           THEN Respond(401, toolName, 0) /\ UNCHANGED <<inFlight, upstreamCalls>>
       ELSE IF toolName \notin connectors[connectorId].tools
           THEN Respond(404, toolName, 0) /\ UNCHANGED <<inFlight, upstreamCalls>>
       ELSE IF ~validateSchemaRuntime(arguments, InputSchema)
           THEN Respond(400, toolName, 0) /\ UNCHANGED <<inFlight, upstreamCalls>>
       ELSE /\ upstreamCalls' = Append(upstreamCalls,
                    [connectorId |-> connectorId, toolName |-> toolName,
                     method |-> toolMethod(toolName), arguments |-> arguments,
                     governance |-> connectors[connectorId].governance])
            /\ inFlight' = inFlight \cup {Len(upstreamCalls) + 1}
            /\ UNCHANGED rtResponses
    /\ UNCHANGED connectors
    /\ UNCHANGED rtFrame

\* The upstream answers (200) or the request fails (500); the handler resumes.
UpstreamReplies(call, ok) ==
    /\ call \in inFlight
    /\ inFlight' = inFlight \ {call}
    /\ Respond(IF ok THEN 200 ELSE 500, upstreamCalls[call].toolName, call)
    /\ UNCHANGED <<connectors, upstreamCalls>>
    /\ UNCHANGED rtFrame

RtNext ==
    \/ \E id \in ConnectorIds, governance \in GovernanceChoices :
           Register(id, governance)
    \/ \E connectorId \in RequestedConnectorIds, toolName \in RequestedToolNames,
          token \in Tokens, arguments \in ArgumentValues :
           ToolsCall(connectorId, toolName, token, arguments)
    \/ \E call \in inFlight, ok \in BOOLEAN : UpstreamReplies(call, ok)

(***************************************************************************)
(* The governance configuration: the admin panel's GovernancePanel         *)
(* component (its three risk-threshold inputs, handleChange, handleSave)   *)
(* and the route PATCH /api/connectors/:id/governance.  Neither writes the *)
(* governance_configs table.                                               *)
(***************************************************************************)
AllowMaxRiskDefault == 30
ApprovalMinRiskDefault == 31
BlockMinRiskDefault == 71

MaxSaves == 1
MaxPatches == 2

JsPlus(x, n) == IF x.nan THEN NaN ELSE Num(x.v + n)

\* What a number input can hold: nothing, or digits.
InputTexts == {"", "30", "71", "100"}

parseInt(text) ==
    CASE text = "30" -> Num(30)
      [] text = "71" -> Num(71)
      [] text = "100" -> Num(100)
      [] OTHER -> NaN

\* The four inputs of the Risk Thresholds box and what each onChange passes
\* to handleChange.
ThresholdInputs == {"allow", "approvalFrom", "approvalTo", "block"}

changedField(input) ==
    CASE input = "allow" -> "aiReviewerAllowMaxRisk"
      [] input = "approvalFrom" -> "aiReviewerApprovalMinRisk"
      [] OTHER -> "aiReviewerBlockMinRisk"

changedValue(input, text) ==
    IF input = "approvalTo" THEN JsPlus(parseInt(text), 1) ELSE parseInt(text)

CfInit ==
    /\ pnGovernance = [aiReviewerAllowMaxRisk |-> Num(AllowMaxRiskDefault),
                       aiReviewerApprovalMinRisk |-> Num(ApprovalMinRiskDefault),
                       aiReviewerBlockMinRisk |-> Num(BlockMinRiskDefault)]
    /\ pnSaved = FALSE
    /\ pnSaving = 0
    /\ pnTimers = 0
    /\ ptLast = [body |-> "none", status |-> 0, stored |-> FALSE]
    /\ ptCount = 0

\* setGovernance(prev => ({ ...prev, [field]: value })); setSaved(false)
handleChange(field, value) ==
    /\ pnGovernance' = [pnGovernance EXCEPT ![field] = value]
    /\ pnSaved' = FALSE
    /\ UNCHANGED <<pnSaving, pnTimers, ptLast, ptCount>>
    /\ UNCHANGED cfFrame

\* The user edits one threshold input.
EditThreshold(input, text) == handleChange(changedField(input), changedValue(input, text))

\* handleSave, up to its await: the 500 ms wait starts.
HandleSave ==
    /\ pnSaving + pnTimers < MaxSaves
    /\ pnSaving' = pnSaving + 1
    /\ UNCHANGED <<pnGovernance, pnSaved, pnTimers, ptLast, ptCount>>
    /\ UNCHANGED cfFrame

\* handleSave, after its await: setSaved(true) and the 3000 ms timer is set.
SaveResolves ==
    /\ pnSaving > 0
    /\ pnSaving' = pnSaving - 1
    /\ pnSaved' = TRUE
    /\ pnTimers' = pnTimers + 1
    /\ UNCHANGED <<pnGovernance, ptLast, ptCount>>
    /\ UNCHANGED cfFrame

\* setTimeout(() => setSaved(false), 3000)
BannerTimerFires ==
    /\ pnTimers > 0
    /\ pnTimers' = pnTimers - 1
    /\ pnSaved' = FALSE
    /\ UNCHANGED <<pnGovernance, pnSaving, ptLast, ptCount>>
    /\ UNCHANGED cfFrame

\* A PATCH body: rateLimitPerMinute is "absent", a "number" or a "string";
\* the two thresholds are Absent or a number.
PatchThresholds == {Absent, "30", "71"}
PatchBodies ==
    [rateLimitPerMinute : {"absent", "number", "string"},
     aiReviewerAllowMaxRisk : PatchThresholds,
     aiReviewerBlockMinRisk : PatchThresholds]

\* UpdateGovernanceSchema.parse(body): a z.object of optional fields; a field
\* of the wrong type is a ZodError, a key the schema does not name is dropped.
UpdateGovernanceSchemaOk(body) == body.rateLimitPerMinute \in {"absent", "number"}

\* The route's answer: 400 on a ZodError, else 200 with the echoed rules;
\* the update of the table is a TODO.
PatchGovernance(body) ==
    /\ ptCount < MaxPatches
    /\ ptLast' = [body |-> body,
                  status |-> IF UpdateGovernanceSchemaOk(body) THEN 200 ELSE 400,
                  stored |-> FALSE]
    /\ ptCount' = ptCount + 1
    /\ UNCHANGED <<pnGovernance, pnSaved, pnSaving, pnTimers>>
    /\ UNCHANGED cfFrame

CfNext ==
    \/ \E input \in ThresholdInputs, text \in InputTexts : EditThreshold(input, text)
    \/ HandleSave
    \/ SaveResolves
    \/ BannerTimerFires
    \/ \E body \in PatchBodies : PatchGovernance(body)

(***************************************************************************)
(* GovernanceEngine.redactSensitiveFields.  A payload value is             *)
(* [kind, fields]: a "leaf" (a string, number or boolean), an "object"     *)
(* with its fields, or "redacted" (the string '[REDACTED]').  A key is the *)
(* sequence of its characters.                                             *)
(***************************************************************************)
MaxDepth == 2

Leaf == [kind |-> "leaf", fields |-> <<>>]
Redacted == [kind |-> "redacted", fields |-> <<>>]
Object(fields) == [kind |-> "object", fields |-> fields]

UpperCase ==
    <<"A", "B", "C", "D", "E", "F", "G", "H", "I", "J", "K", "L", "M",
      "N", "O", "P", "Q", "R", "S", "T", "U", "V", "W", "X", "Y", "Z">>
LowerCase ==
    <<"a", "b", "c", "d", "e", "f", "g", "h", "i", "j", "k", "l", "m",
      "n", "o", "p", "q", "r", "s", "t", "u", "v", "w", "x", "y", "z">>

\* key.toLowerCase()
toLowerCase(key) ==
    [i \in 1..Len(key) |->
        IF \E u \in 1..Len(UpperCase) : UpperCase[u] = key[i]
            THEN LowerCase[CHOOSE u \in 1..Len(UpperCase) : UpperCase[u] = key[i]]
        ELSE key[i]]

\* lowerKey.includes(pattern)
includes(s, pattern) ==
    \E i \in 0..(Len(s) - Len(pattern)) : SubSeq(s, i + 1, i + Len(pattern)) = pattern

sensitivePatterns ==
    {<<"a", "p", "i", "_", "k", "e", "y">>,
     <<"s", "e", "c", "r", "e", "t">>,
     <<"t", "o", "k", "e", "n">>,
     <<"p", "a", "s", "s", "w", "o", "r", "d">>,
     <<"a", "u", "t", "h">>,
     <<"c", "r", "e", "d", "e", "n", "t", "i", "a", "l">>}

matchesAnyPattern(key) ==
    \E pattern \in sensitivePatterns : includes(toLowerCase(key), pattern)

\* redactRecursive(obj), as the value it leaves in place of obj
RECURSIVE redactRecursive(_)
redactRecursive(obj) ==
    IF obj.kind # "object" THEN obj
    ELSE Object([key \in DOMAIN obj.fields |->
                    IF matchesAnyPattern(key) THEN Redacted
                    ELSE redactRecursive(obj.fields[key])])

\* JSON.parse(JSON.stringify(payload)) copies the payload; the copy is redacted.
redactSensitiveFields(payload) == redactRecursive(payload)

PayloadKeys ==
    {<<"a", "p", "i", "_", "k", "e", "y">>,
     <<"a", "p", "i", "k", "e", "y">>,
     <<"s", "e", "c", "r", "e", "t">>,
     <<"s", "e", "c", "r", "e", "t", "s">>,
     <<"t", "o", "k", "e", "n">>,
     <<"t", "o", "k", "e", "n", "s">>,
     <<"p", "a", "s", "s", "w", "o", "r", "d">>,
     <<"p", "a", "s", "s", "w", "d">>,
     <<"a", "u", "t", "h">>,
     <<"a", "u", "t", "h", "o", "r", "i", "z", "a", "t", "i", "o", "n">>,
     <<"c", "r", "e", "d", "e", "n", "t", "i", "a", "l">>,
     <<"c", "r", "e", "d", "e", "n", "t", "i", "a", "l", "s">>,
     <<"T", "o", "k", "e", "n">>,
     <<"a", "m", "o", "u", "n", "t">>,
     <<"a", "u", "t", "h", "o", "r">>}

\* The values nested at most d objects deep: a leaf, or an object with one
\* field.
RECURSIVE ValuesOfDepth(_)
ValuesOfDepth(d) ==
    IF d = 0 THEN {Leaf}
    ELSE {Leaf} \cup {Object([k \in {key} |-> value]) :
                         key \in PayloadKeys, value \in ValuesOfDepth(d - 1)}

\* The payloads: the objects above, and objects of two leaf fields.
Payloads ==
    (ValuesOfDepth(MaxDepth) \ {Leaf})
        \cup {Object([k \in {key1, key2} |-> Leaf]) : key1, key2 \in PayloadKeys}

NoPayload == [kind |-> "none", fields |-> <<>>]

RdIdle == rdInput = NoPayload /\ rdOutput = NoPayload
RdInit == rdInput \in Payloads /\ rdOutput = NoPayload

RedactSensitiveFields ==
    /\ rdInput # NoPayload
    /\ rdOutput = NoPayload
    /\ rdOutput' = redactSensitiveFields(rdInput)
    /\ UNCHANGED rdInput
    /\ UNCHANGED rdFrame

(***************************************************************************)
(* Specifications: one per component, and the whole system.                *)
(***************************************************************************)
RvIdle ==
    /\ rvImpl = "openai"
    /\ rvFallback = "REQUIRE_HUMAN_APPROVAL"
    /\ rvPc = "idle"
    /\ rvTimer = "unset"
    /\ rvContent = NoContent
    /\ rvResult = NoResult
    /\ rvElapsed = FALSE

ReviewInit == RvInit /\ FdIdle /\ RlIdle /\ GvIdle /\ CgIdle /\ ApInit /\ RtInit /\ CfInit /\ RdIdle
SpecReview == ReviewInit /\ [][RvNext]_vars

DecisionInit == RvIdle /\ FdInit /\ RlIdle /\ GvIdle /\ CgIdle /\ ApInit /\ RtInit /\ CfInit /\ RdIdle
SpecDecision == DecisionInit /\ [][ResolveFinalDecision]_vars

RateInit == RvIdle /\ FdIdle /\ RlInit /\ GvIdle /\ CgIdle /\ ApInit /\ RtInit /\ CfInit /\ RdIdle
SpecRate == RateInit /\ [][RlNext]_vars

GovernanceInit == RvIdle /\ FdIdle /\ RlIdle /\ GvInit /\ CgIdle /\ ApInit /\ RtInit /\ CfInit /\ RdIdle
GvNext ==
    \/ Tick
    \/ CheckGovernance
SpecGovernance == GovernanceInit /\ [][GvNext]_vars

ShapeInit == RvIdle /\ FdIdle /\ RlIdle /\ ShInit /\ CgIdle /\ ApInit /\ RtInit /\ CfInit /\ RdIdle
ShNext ==
    \/ Tick
    \/ CheckGovernance
    \/ KillSwitch
SpecShape == ShapeInit /\ [][ShNext]_vars

CeilingsInit == RvIdle /\ FdIdle /\ RlIdle /\ GvIdle /\ CgInit /\ ApInit /\ RtInit /\ CfInit /\ RdIdle
SpecCeilings == CeilingsInit /\ [][CheckNumericCeilings]_vars

ApprovalsInit == RvIdle /\ FdIdle /\ RlIdle /\ GvIdle /\ CgIdle /\ ApInit /\ RtInit /\ CfInit /\ RdIdle
SpecApprovals == ApprovalsInit /\ [][ApNext]_vars

RuntimeInit == RvIdle /\ FdIdle /\ RlIdle /\ GvIdle /\ CgIdle /\ ApInit /\ RtInit /\ CfInit /\ RdIdle
SpecRuntime == RuntimeInit /\ [][RtNext]_vars

ConfigInit == RvIdle /\ FdIdle /\ RlIdle /\ GvIdle /\ CgIdle /\ ApInit /\ RtInit /\ CfInit /\ RdIdle
SpecConfig == ConfigInit /\ [][CfNext]_vars

RedactionInit == RvIdle /\ FdIdle /\ RlIdle /\ GvIdle /\ CgIdle /\ ApInit /\ RtInit /\ CfInit /\ RdInit
SpecRedaction == RedactionInit /\ [][RedactSensitiveFields]_vars

Init == RvInit /\ FdIdle /\ RlInit /\ GvInit /\ CgIdle /\ ApInit /\ RtInit /\ CfInit /\ RdIdle
Next ==
    \/ RvNext
    \/ RlNext
    \/ CheckGovernance
    \/ KillSwitch
    \/ ApNext
    \/ RtNext
    \/ CfNext
Spec == Init /\ [][Next]_vars

(***************************************************************************)
(* What the pipeline is meant to do with a review() result (spec 4.2 and   *)
(* 4.4; the repository holds no caller of review()): a raised error        *)
(* becomes the configured fallback verdict with risk score 75, a returned  *)
(* verdict is resolved under the thresholds, and the decision maps to the  *)
(* outcome.                                                                *)
(***************************************************************************)
FallbackRiskScore == 75

applyFallback(result, fallback) ==
    IF result.kind = "error"
        THEN Verdict(fallback, Num(FallbackRiskScore), "review unavailable")
    ELSE result

outcomeOf(decision) ==
    CASE decision = "ALLOW" -> "ALLOW"
      [] decision = "BLOCK" -> "BLOCKED"
      [] OTHER -> "PENDING"

reviewOutcome(result, fallback) ==
    IF result.kind = "error"
        THEN [outcome |-> outcomeOf(fallback), riskScore |-> Num(FallbackRiskScore)]
    ELSE [outcome |-> outcomeOf(determineFinalDecision(result, AllowMaxRiskDefault,
                                    ApprovalMinRiskDefault, BlockMinRiskDefault)),
          riskScore |-> result.riskScore]

(***************************************************************************)
(* The claims.                                                             *)
(***************************************************************************)

\* C1: the upstream API is called only for an invocation the governance
\* checks allow: every invocation handed to callUpstreamAPI has a verb that
\* is in the allowedVerbs its connector was registered with.
C1_UpstreamOnlyWhenAllowed ==
    \A i \in 1..Len(upstreamCalls) :
        verbAllowed(upstreamCalls[i].method, upstreamCalls[i].governance.allowedVerbs)

\* C2: a review() call completes no later than the configured timeout: once
\* the timeout has elapsed on a suspended call, the call has returned or
\* thrown.
C2_ReviewCompletesByTimeout ==
    rvElapsed => rvPc \in {"returned", "raised"}

\* C3: when the reviewer call timed out and the fallback is
\* REQUIRE_HUMAN_APPROVAL, the completed invocation's outcome is PENDING with
\* risk score 75, whatever the reviewer answers afterwards.
C3_TimeoutYieldsPending ==
    (rvElapsed /\ rvFallback = "REQUIRE_HUMAN_APPROVAL" /\ rvPc \in {"returned", "raised"})
        => reviewOutcome(rvResult, rvFallback)
               = [outcome |-> "PENDING", riskScore |-> Num(FallbackRiskScore)]

\* C4: when the reviewer's reply cannot be parsed, the verdict that results
\* is the configured fallback verdict, with risk score 75.
C4_UnparseableYieldsFallback ==
    (rvPc \in {"returned", "raised"} /\ rvContent.kind \in {"noJson", "badJson"})
        => LET v == applyFallback(rvResult, rvFallback) IN
               v.decision = rvFallback /\ v.riskScore = Num(FallbackRiskScore)

\* C5: determineFinalDecision returns the result of the ordered rule list
\* (BLOCK if the decision is BLOCK; else approval if ALLOW with score above
\* allowMax; else BLOCK from blockMin; else approval from approvalMin; else
\* ALLOW up to allowMax; else the verdict's decision), so that ALLOW with
\* score 50 under 30/31/71 resolves to REQUIRE_HUMAN_APPROVAL.
RuleList(decision, score, allowMax, approvalMin, blockMin) ==
    CASE decision = "BLOCK" -> "BLOCK"
      [] decision # "BLOCK" /\ decision = "ALLOW" /\ score > allowMax
            -> "REQUIRE_HUMAN_APPROVAL"
      [] decision # "BLOCK" /\ ~(decision = "ALLOW" /\ score > allowMax)
            /\ score >= blockMin -> "BLOCK"
      [] decision # "BLOCK" /\ ~(decision = "ALLOW" /\ score > allowMax)
            /\ score < blockMin /\ score >= approvalMin -> "REQUIRE_HUMAN_APPROVAL"
      [] decision # "BLOCK" /\ ~(decision = "ALLOW" /\ score > allowMax)
            /\ score < blockMin /\ score < approvalMin /\ score <= allowMax -> "ALLOW"
      [] OTHER -> decision

C5_Example ==
    [decision |-> "ALLOW", riskScore |-> Num(50), allowMaxRisk |-> AllowMaxRiskDefault,
     approvalMinRisk |-> ApprovalMinRiskDefault, blockMinRisk |-> BlockMinRiskDefault]

C5_FinalDecisionRuleList ==
    fdOutput # "none" =>
        /\ fdOutput = RuleList(fdInput.decision, fdInput.riskScore.v, fdInput.allowMaxRisk,
                               fdInput.approvalMinRisk, fdInput.blockMinRisk)
        /\ fdInput = C5_Example => fdOutput = "REQUIRE_HUMAN_APPROVAL"

C5_Witness ==
    fdInput = C5_Example /\ fdOutput = "REQUIRE_HUMAN_APPROVAL"

\* The rate-limit checks of the log, read as fixed windows per key: a key's
\* first check opens a window of WindowMs; a check later than the window's
\* end opens the next one.
RECURSIVE PrevSameKey(_, _)
PrevSameKey(i, j) ==
    IF j = 0 THEN 0
    ELSE IF rlLog[j].key = rlLog[i].key THEN j
    ELSE PrevSameKey(i, j - 1)

\* The window end of every check of the log, first to last.
RECURSIVE WindowEndsUpTo(_)
WindowEndsUpTo(n) ==
    IF n = 0 THEN <<>>
    ELSE LET ends == WindowEndsUpTo(n - 1)
             p == PrevSameKey(n, n - 1)
         IN  Append(ends, IF p = 0 \/ rlLog[n].at > ends[p]
                              THEN rlLog[n].at + WindowMs
                          ELSE ends[p])

WindowEnds == WindowEndsUpTo(Len(rlLog))

OpensWindow(we, i) ==
    LET p == PrevSameKey(i, i - 1) IN
    p = 0 \/ rlLog[i].at > we[p]

SameWindow(we, i, j) ==
    rlLog[i].key = rlLog[j].key /\ we[i] = we[j]

PassedBefore(we, i) ==
    Cardinality({j \in 1..(i - 1) : SameWindow(we, i, j) /\ rlLog[j].allowed})

PassedInWindow(we, i) ==
    Cardinality({j \in 1..Len(rlLog) : SameWindow(we, i, j) /\ rlLog[j].allowed})

\* C6: with limit N per window, a check passes while fewer than N checks of
\* its key passed in the window, the check after N passes is rejected, and
\* the first check after the window rolled over passes with the count
\* restarted at 1.
C6_FixedWindowLimit ==
    LET we == WindowEnds IN
    \A i \in 1..Len(rlLog) :
        LET passed == PassedBefore(we, i) IN
        /\ passed < limit => rlLog[i].allowed
        /\ passed >= limit => ~rlLog[i].allowed
        /\ OpensWindow(we, i) => rlLog[i].allowed /\ rlLog[i].count = 1

\* N checks passed and the next one was rejected in a first window, and a
\* check after the rollover passed again.
C6_Witness ==
    LET we == WindowEnds IN
    \E i, j \in 1..Len(rlLog) :
        /\ i < j
        /\ rlLog[i].key = rlLog[j].key
        /\ ~rlLog[i].allowed
        /\ PassedBefore(we, i) = limit
        /\ OpensWindow(we, j)
        /\ PrevSameKey(j, j - 1) # 0
        /\ rlLog[j].allowed

\* C7: of the invocations with one rate-limit key checked inside one window,
\* at most N pass, however the waiting requests are interleaved.
C7_AtMostLimitPerWindow ==
    LET we == WindowEnds IN
    \A i \in 1..Len(rlLog) : PassedInWindow(we, i) <= limit

\* A burst: a request was rejected while another request of its key was
\* waiting with it, in a window in which N requests passed.
C7_Witness ==
    LET we == WindowEnds IN
    \E i \in 1..Len(rlLog) :
        /\ rlLog[i].burst >= 2
        /\ ~rlLog[i].allowed
        /\ PassedInWindow(we, i) = limit

\* C8: an approval record that reached APPROVED or REJECTED keeps that
\* status: the decisions reported for one record all report the same status.
C8_TerminalStatusKept ==
    \A i, j \in 1..Len(apResponses) :
        (/\ i < j
         /\ apResponses[i].id = apResponses[j].id
         /\ apResponses[i].code = 200
         /\ apResponses[j].code = 200)
            => apResponses[j].status = apResponses[i].status

\* C9: a decision succeeds only on a record that exists and is PENDING.
C9_DecideOnlyPendingRecord ==
    \A i \in 1..Len(apResponses) :
        apResponses[i].code = 200 =>
            /\ apResponses[i].id \in DOMAIN approvals
            /\ approvals[apResponses[i].id].status = "pending"

\* C10: of the decisions made on one record, exactly one commits: at most one
\* is answered as a success.
C10_OneDecisionCommits ==
    \A id \in ApprovalIds :
        Cardinality({i \in 1..Len(apResponses) :
                        apResponses[i].id = id /\ apResponses[i].code = 200}) <= 1

\* C11: Sweep(now) moves to EXPIRED the records that are PENDING and whose
\* expiry is before now: a record that was listed as pending is not listed
\* as pending any more once the expiry it was listed with has passed.
C11_ExpiredLeavesPending ==
    \A i, j \in 1..Len(apListings) :
        \A a \in apListings[i].approvals, b \in apListings[j].approvals :
            (i < j /\ a.id = b.id /\ a.expiresAt < apListings[j].at)
                => b.status # "pending"

\* An invocation the policy holds for approval: its verb is allowed, its
\* method makes it WRITE or DANGEROUS, and both approval flags are set.
HeldForApproval(call) ==
    /\ verbAllowed(call.method, call.governance.allowedVerbs)
    /\ call.method \notin ReadMethods
    /\ call.governance.requireApprovalForWrites
    /\ call.governance.requireApprovalForHighRisk

\* C12: an invocation held for approval is handed to the upstream only after
\* its approval record became APPROVED, and with the arguments stored in
\* that record.
C12_ExecutedOnlyWhenApproved ==
    \A i \in 1..Len(upstreamCalls) :
        HeldForApproval(upstreamCalls[i]) =>
            \E id \in DOMAIN approvals :
                /\ approvals[id].status = "approved"
                /\ approvals[id].arguments = upstreamCalls[i].arguments

\* C13: a request whose policy evaluation passes with requiresApproval set
\* has the outcome PENDING: it is never answered with the result (or the
\* error) of an upstream call.
C13_ApprovalPolicyYieldsPending ==
    \A i \in 1..Len(rtResponses) :
        rtResponses[i].call # 0 =>
            ~HeldForApproval(upstreamCalls[rtResponses[i].call])

\* C14: the policy engine runs first and a violation ends the pipeline with
\* the outcome BLOCKED: no later stage runs for the request, so no request
\* with a verb outside allowedVerbs is suspended in, or answered from, the
\* upstream call.
C14_ViolationEndsPipeline ==
    /\ \A call \in inFlight :
           verbAllowed(upstreamCalls[call].method,
                       upstreamCalls[call].governance.allowedVerbs)
    /\ \A i \in 1..Len(rtResponses) :
           rtResponses[i].call # 0 =>
               verbAllowed(upstreamCalls[rtResponses[i].call].method,
                           upstreamCalls[rtResponses[i].call].governance.allowedVerbs)

\* The base URLs whose host lies in a private or loopback range (the RFC1918
\* ranges, fc00::/7, ::1, 127.0.0.1, localhost), and those that are no URL.
PrivateBaseUrls ==
    {"http://192.168.1.5/api", "http://10.0.0.8", "http://172.16.0.1:8080",
     "http://LOCALHOST:3000", "http://127.0.0.1/api", "http://[::1]:8080/api",
     "http://[fd12:3456::1]/"}
UnparsableBaseUrls == {"api.t-dx.com"}

\* C15: for a base URL whose host is private or loopback, or that does not
\* parse as a URL, checkGovernance returns allowed = false, whatever the
\* rest of the configuration and the request.
C15_PrivateHostRejected ==
    (gvCalls > 0 /\ gvInput.baseUrl \in PrivateBaseUrls \cup UnparsableBaseUrls)
        => ~gvResult.threw /\ ~gvResult.result.allowed

\* A pattern read as the allowlist's pattern language: `*` matches any run
\* of characters, `{name}` exactly one path segment, every other character
\* itself.  Whether pattern, from character i on, matches path from j on.
RECURSIVE PatternMatches(_, _, _, _)
PatternMatches(pattern, i, path, j) ==
    IF i > Len(pattern) THEN j > Len(path)
    ELSE IF pattern[i] = "*"
        THEN \E k \in j..(Len(path) + 1) : PatternMatches(pattern, i + 1, path, k)
    ELSE IF pattern[i] = "{" /\ closingBrace(pattern, i + 1) > i + 1
        THEN \E k \in (j + 1)..(Len(path) + 1) :
                 /\ \A m \in j..(k - 1) : path[m] # "/"
                 /\ PatternMatches(pattern, closingBrace(pattern, i + 1) + 1, path, k)
    ELSE /\ j <= Len(path)
         /\ path[j] = pattern[i]
         /\ PatternMatches(pattern, i + 1, path, j + 1)

NamesVerb(result, verb) ==
    \E v \in 1..Len(result.violations) :
        result.violations[v] = [check |-> "verb", names |-> verb]

VerbOutside(input) == input.tool.method \notin input.config.allowedVerbs
PathOutside(input) ==
    /\ input.config.allowedPaths # {}
    /\ \A pattern \in input.config.allowedPaths :
           ~PatternMatches(pattern, 1, input.tool.path, 1)

WatchedFields == {ceilingFields[i] : i \in 1..Len(ceilingFields)}

Exceeding(input, field) ==
    /\ field \in DOMAIN input.arguments.fields
    /\ field \in DOMAIN input.ceilings
    /\ input.arguments.fields[field].t = "number"
    /\ input.arguments.fields[field].n > input.ceilings[field]

\* C17: the ceiling check yields a violation exactly when a watched field
\* with a configured ceiling c holds a number v > c, and the violation names
\* such a field; v = c passes.
C17_ViolationIffAboveCeiling ==
    cgOutput # NoCeilingOutput =>
        /\ ~cgOutput.threw
        /\ ~cgOutput.allowed <=> \E field \in WatchedFields : Exceeding(cgInput, field)
        /\ ~cgOutput.allowed =>
               /\ cgOutput.reason.check = "ceiling"
               /\ cgOutput.reason.names \in WatchedFields
               /\ Exceeding(cgInput, cgOutput.reason.names)

\* amount 100000 against the ceiling 100000 passed the check.
C17_Witness ==
    /\ cgOutput # NoCeilingOutput
    /\ cgInput.arguments = ObjectOf([f \in {"amount"} |-> NumberValue(100000)])
    /\ cgInput.ceilings = [f \in {"amount"} |-> 100000]
    /\ cgOutput.allowed

\* C18: a ceiling configured for a parameter is enforced for that parameter:
\* any argument with a configured ceiling and a number above it yields a
\* violation.
C18_EveryCeilingEnforced ==
    cgOutput # NoCeilingOutput =>
        \A field \in DOMAIN cgInput.ceilings :
            Exceeding(cgInput, field) => ~cgOutput.allowed

\* C19: requiresApproval = (no violation) and ((WRITE and the WRITE flag) or
\* (DANGEROUS and the DANGEROUS flag)); a result that is not allowed never
\* requires approval.
C19_RequiresApprovalFormula ==
    gvCalls > 0 =>
        LET r == gvResult.result
            flagged ==
                \/ gvInput.tool.category = "WRITE" /\ gvInput.config.requireApprovalForWrites
                \/ gvInput.tool.category = "DANGEROUS"
                       /\ gvInput.config.requireApprovalForHighRisk
        IN  /\ ~gvResult.threw
            /\ r.requiresApproval = (r.violations = <<>> /\ flagged)
            /\ ~r.allowed => ~r.requiresApproval

\* A WRITE request under the WRITE-approval flag, checked with a violation:
\* not allowed, and approval not required.
C19_Witness ==
    /\ gvCalls > 0
    /\ gvInput.config.enabled
    /\ gvInput.tool.category = "WRITE"
    /\ gvInput.config.requireApprovalForWrites
    /\ gvResult.result.violations # <<>>
    /\ ~gvResult.result.allowed
    /\ ~gvResult.result.requiresApproval

\* A reply with the three fields in their types (a decision string, a
\* number, an array) whose decision is outside the enum or whose score is
\* outside 0..100.
SemanticallyInvalid(content) ==
    /\ content.kind = "json"
    /\ content.decision # Absent
    /\ content.riskScore.k = "number"
    /\ content.reasons = "array"
    /\ \/ content.decision \notin Decisions
       \/ content.riskScore.v \notin 0..MaxRiskScore

\* C20: a structurally valid but semantically invalid reply yields the
\* decision REQUIRE_HUMAN_APPROVAL and a score within 0..100.
C20_InvalidReplyCoerced ==
    (rvPc = "returned" /\ SemanticallyInvalid(rvContent)) =>
        /\ rvResult.decision = "REQUIRE_HUMAN_APPROVAL"
        /\ ~rvResult.riskScore.nan
        /\ rvResult.riskScore.v \in 0..MaxRiskScore

\* C21: every verdict review() returns is well-formed: its decision is one
\* of the three decisions and its risk score is a number within 0..100.
C21_VerdictWellFormed ==
    rvPc = "returned" =>
        /\ rvResult.kind = "verdict"
        /\ rvResult.decision \in Decisions
        /\ ~rvResult.riskScore.nan
        /\ rvResult.riskScore.v \in 0..MaxRiskScore

\* x < y on JavaScript numbers: false when either is NaN.
JsLt(x, y) == ~x.nan /\ ~y.nan /\ x.v < y.v

\* A PATCH body whose two thresholds are given and not in order.
BreaksOrdering(body) ==
    /\ body.aiReviewerAllowMaxRisk # Absent
    /\ body.aiReviewerBlockMinRisk # Absent
    /\ ~JsLt(parseInt(body.aiReviewerAllowMaxRisk), parseInt(body.aiReviewerBlockMinRisk))

\* C22: the thresholds of a configuration reported as saved satisfy
\* allowMax < blockMin, and an update that would break the ordering is
\* rejected.
C22_ThresholdOrderKept ==
    /\ pnSaved => JsLt(pnGovernance.aiReviewerAllowMaxRisk,
                       pnGovernance.aiReviewerBlockMinRisk)
    /\ (ptCount > 0 /\ BreaksOrdering(ptLast.body)) => ptLast.status = 400

\* A step in which checkGovernance runs.
GovernanceCall == gvCalls' = gvCalls + 1

\* A value of a declared type: a number for 'number' and 'integer', else
\* the type itself.
Conforms(value, type) ==
    IF type = "integer" THEN value.t = "number" ELSE value.t = type

\* An argument value that does not satisfy the declared shape: not an
\* object, a required field missing, or a field of another type than declared.
IllShaped(arguments_, schema) ==
    \/ arguments_.type # "object"
    \/ arguments_.null
    \/ \E i \in 1..Len(schema.required) :
           schema.required[i] \notin DOMAIN arguments_.fields
    \/ \E i \in 1..Len(schema.properties) :
           /\ schema.properties[i].name \in DOMAIN arguments_.fields
           /\ ~Conforms(arguments_.fields[schema.properties[i].name],
                        schema.properties[i].type)

HasShapeViolation(result) ==
    \E v \in 1..Len(result.violations) : result.violations[v].check = "schema"

\* C23: checkGovernance, run for an enabled connector on an argument value
\* that does not satisfy the declared shape, does not throw: it returns
\* allowed = false with a shape violation.
C23_ShapeMismatchIsViolation ==
    [][(/\ GovernanceCall
        /\ gvInput.config.enabled
        /\ IllShaped(gvInput.arguments, gvInput.tool.inputSchema))
           => /\ ~gvResult'.threw
              /\ ~gvResult'.result.allowed
              /\ HasShapeViolation(gvResult'.result)]_vars

\* The documented sensitive names (README, Sensitive Field Redaction).
DocumentedNames ==
    {<<"a", "p", "i", "_", "k", "e", "y">>,
     <<"a", "p", "i", "k", "e", "y">>,
     <<"s", "e", "c", "r", "e", "t">>,
     <<"s", "e", "c", "r", "e", "t", "s">>,
     <<"t", "o", "k", "e", "n">>,
     <<"t", "o", "k", "e", "n", "s">>,
     <<"p", "a", "s", "s", "w", "o", "r", "d">>,
     <<"p", "a", "s", "s", "w", "d">>,
     <<"a", "u", "t", "h">>,
     <<"a", "u", "t", "h", "o", "r", "i", "z", "a", "t", "i", "o", "n">>,
     <<"c", "r", "e", "d", "e", "n", "t", "i", "a", "l">>,
     <<"c", "r", "e", "d", "e", "n", "t", "i", "a", "l", "s">>}

\* The payload with the value of every documented name, in any letter case
\* and at any depth, replaced and every other value kept.
RECURSIVE RedactedAsDocumented(_)
RedactedAsDocumented(value) ==
    IF value.kind # "object" THEN value
    ELSE Object([key \in DOMAIN value.fields |->
                    IF toLowerCase(key) \in DocumentedNames THEN Redacted
                    ELSE RedactedAsDocumented(value.fields[key])])

\* C24: redactSensitiveFields replaces the value of every key that is a
\* documented sensitive name, at any depth, and leaves every other value.
C24_RedactsDocumentedNames ==
    rdOutput # NoPayload => rdOutput = RedactedAsDocumented(rdInput)

\* The five checks in their order, and whether each fails for the request
\* when run on the rate limiter's map as the call finds it.
CheckOrder == <<"domain", "rate", "allowlist", "schema", "ceiling">>

CheckFails(check) ==
    CASE check = "domain" -> ~checkDomainLock(gvInput.baseUrl).allowed
      [] check = "rate" ->
             ~checkRateLimit(rateLimitMap, gvInput.rateLimitKey,
                             gvInput.config.rateLimitPerMinute, now).allowed
      [] check = "allowlist" -> ~checkEndpointAllowlist(gvInput.tool, gvInput.config).allowed
      [] check = "schema" ->
             ~validateSchema(gvInput.arguments, gvInput.tool.inputSchema).allowed
      [] OTHER ->
             ~checkNumericCeilings(gvInput.arguments, gvInput.config.numericCeilings).allowed

\* The check a violation comes from.
ViolationOf(violation) ==
    IF violation.check \in {"verb", "path"} THEN "allowlist" ELSE violation.check

DisabledResult ==
    [allowed |-> FALSE, reason |-> "Connector is disabled", requiresApproval |-> FALSE,
     violations |-> <<[check |-> "enabled", names |-> "Connector disabled"]>>]

\* C26: with config.enabled false, checkGovernance returns allowed = false
\* with exactly one violation and requiresApproval = false, and the rate
\* limiter's map (every key's counter and window) is left as it was.
C26_DisabledShortCircuits ==
    [][(GovernanceCall /\ ~gvInput.config.enabled)
           => /\ ~gvResult'.threw
              /\ gvResult'.result = DisabledResult
              /\ Len(gvResult'.result.violations) = 1
              /\ rateLimitMap' = rateLimitMap]_vars

\* A disabled call that followed a counted one: the key's counter is still 1.
C26_Witness ==
    /\ gvCalls > 1
    /\ ~gvInput.config.enabled
    /\ gvResult.result = DisabledResult
    /\ gvInput.rateLimitKey \in DOMAIN rateLimitMap
    /\ rateLimitMap[gvInput.rateLimitKey].requestCount = 1

\* The counter the rate limiter holds for a key: 0 for a key without entry.
CounterOf(map, key) == IF key \in DOMAIN map THEN map[key].requestCount ELSE 0

\* The entry of a key is the same in both maps.
SameEntry(map1, map2, key) ==
    /\ key \in DOMAIN map1 <=> key \in DOMAIN map2
    /\ key \in DOMAIN map1 => map1[key] = map2[key]

\* C27: a rejected rate-limit check leaves the counter of its key as it
\* was, a check on one key leaves the counter and window of every other key
\* as they were, and every counter stays within 0..N.
C27_RejectedCheckLeavesCounter ==
    [][\A key \in Keys :
           (waiting'[key] = waiting[key] - 1) =>
               /\ ~rlLog'[Len(rlLog')].allowed =>
                      CounterOf(rateLimitMap', key) = CounterOf(rateLimitMap, key)
               /\ \A other \in Keys \ {key} : SameEntry(rateLimitMap', rateLimitMap, other)
               /\ \A k \in Keys : CounterOf(rateLimitMap', k) \in 0..limit]_vars

\* A check was rejected with its key's counter at N while the other key has
\* an entry of its own.
C27_Witness ==
    /\ rlLog # <<>>
    /\ ~rlLog[Len(rlLog)].allowed
    /\ CounterOf(rateLimitMap, rlLog[Len(rlLog)].key) = limit
    /\ DOMAIN rateLimitMap = Keys

\* How restrictive a decision is: ALLOW < REQUIRE_HUMAN_APPROVAL < BLOCK.
Restrictiveness(decision) ==
    CASE decision = "ALLOW" -> 0
      [] decision = "REQUIRE_HUMAN_APPROVAL" -> 1
      [] OTHER -> 2

\* C28: the final decision is never less restrictive than the reviewer's
\* own decision.
C28_NeverLessRestrictive ==
    fdOutput # "none" =>
        Restrictiveness(fdOutput) >= Restrictiveness(fdInput.decision)

\* A parseable reply with a valid decision and a number within 0..100 as
\* its score.
ValidReply(content) ==
    /\ content.kind = "json"
    /\ content.decision \in Decisions
    /\ content.riskScore.k = "number"
    /\ content.riskScore.v \in 0..MaxRiskScore

\* C29: for such a reply the verdict carries the reply's decision and
\* score, also at the scores 0 and 100; ALLOW with score 0 resolves to ALLOW
\* under the default thresholds.
C29_ValidReplyKept ==
    (rvPc = "returned" /\ ValidReply(rvContent)) =>
        /\ rvResult.decision = rvContent.decision
        /\ rvResult.riskScore = Num(rvContent.riskScore.v)
        /\ (rvContent.decision = "ALLOW" /\ rvContent.riskScore.v = 0) =>
               determineFinalDecision(rvResult, AllowMaxRiskDefault,
                                      ApprovalMinRiskDefault, BlockMinRiskDefault)
                   = "ALLOW"

\* C30: an argument map that conforms to the input schema generated for the
\* tool (every required field present, every declared field of its declared
\* type) passes shape validation with no violation.
C30_GeneratedSchemaAccepted ==
    [][(/\ GovernanceCall
        /\ gvInput.config.enabled
        /\ ~IllShaped(gvInput.arguments, gvInput.tool.inputSchema))
           => /\ ~gvResult'.threw
              /\ ~HasShapeViolation(gvResult'.result)]_vars

====
